---- MODULE Spec2Model ----
(***************************************************************************)
(* Model of the heading feature: FormatEngine.init (schema items and the   *)
(* model<->view converters), HeadingCommand (value, _doExecute,            *)
(* refreshValue, _checkEnabled, checkCanBecomeHeading) and the Console of  *)
(* the title snippet (docs/_snippets/features/title.js).                   *)
(*                                                                         *)
(* The document is a sequence of blocks; a block has an element name and a *)
(* parent in which it sits.  The host document queues change callbacks     *)
(* (enqueueChanges), runs them in order and fires changesDone when the     *)
(* queue is empty.                                                         *)
(***************************************************************************)
EXTENDS Integers, Sequences, FiniteSets, TLC

\* ---------------------------------------------------------------- bounds
MaxBlocks == 2
MaxBatches == 2
MaxPending == 1
MaxLen == 2
MaxEvents == 2

\* ------------------------------------------------------------ vocabulary
Names == {"paragraph", "heading1", "heading2"}
Headings == {"heading1", "heading2"}
Parents == {"$root", "limit"}

\* Items registered as '$block' are allowed in the root.  The "limit"
\* parent stands for a place whose schema rules admit some blocks only.
Schema ==
    {<<n, "$root">> : n \in Names} \cup {<<"paragraph", "limit">>, <<"heading2", "limit">>}

VARIABLES
    names,        \* names[i]: element name of block i of the document
    parents,      \* parents[i]: the element block i sits in
    sel,          \* document.selection.getSelectedBlocks(), in document order
    modelElement, \* HeadingCommand.modelElement
    value,        \* HeadingCommand.value
    isEnabled,    \* Command.isEnabled
    inChange,     \* TRUE while a change callback of another caller is running
    pending,      \* callbacks queued by enqueueChanges, not yet run
    nbatches,     \* number of batches created by document.batch()
    log,          \* renames of the last change block: [block, name, batch, inv]
    trace,        \* executes of the last change block: [inv, shouldRemove, option, batch, calls]
    fresh,        \* TRUE when changesDone was the last thing that happened
    schemaItems,  \* items registered in the schema, with what they extend
    modelToView,  \* converters built for data.modelToView, in order
    viewToModel,  \* converters built for data.viewToModel, in order
    cdoc,         \* the model the data pipeline works on: element names
    cview,        \* the view of the data pipeline: tag names
    csrc,         \* "model": cview was made from cdoc by the converters; "view": cdoc from cview
    consoles,     \* the three Console objects of the snippet
    timers,       \* pending setTimeout callbacks, in the order they were set
    events        \* number of change:data events fired

hvars == <<names, parents, sel, modelElement, value, isEnabled, inChange,
           pending, nbatches, log, trace, fresh>>
cvars == <<schemaItems, modelToView, viewToModel, cdoc, cview, csrc>>
kvars == <<consoles, timers, events>>
vars == <<hvars, cvars, kvars>>

\* ------------------------------------------------------ host primitives
\* first( iterable )
first(s) == IF s = <<>> THEN 0 ELSE Head(s)

\* block.is( name )
is(nm, block, name) == nm[block] = name

\* Variant: the check is made for the root, not for the block's position.
checkCanBecomeHeadingInRoot(block, heading, schema) == <<heading, "$root">> \in schema

\* schema.check( { name, inside: Position.createBefore( block ) } )
checkCanBecomeHeading(block, heading, schema) == <<heading, parents[block]>> \in schema

\* The contiguous selections of a document of n blocks (the empty one too).
Selections(n) ==
    {[k \in 1..(j - i + 1) |-> i + k - 1] : i \in 1..n, j \in 0..n}

\* ------------------------------------------------------- HeadingCommand
\* One queued callback.  kind "heading": the callback of _doExecute, with
\* the shouldRemove it read and options.batch (0 when not given).  kind
\* "paragraph": the callback of the paragraph command, with the selection
\* (a sequence of ranges) and the batch it was executed with.
HeadingEntry(inv, shouldRemove, batch) ==
    [kind |-> "heading", inv |-> inv, shouldRemove |-> shouldRemove, selection |-> <<>>, batch |-> batch]
ParagraphEntry(inv, selection, batch) ==
    [kind |-> "paragraph", inv |-> inv, shouldRemove |-> FALSE, selection |-> selection, batch |-> batch]

\* Range.createIn( block ): from the start to the end of the block.
createIn(block) == <<block, block>>

\* selection.getSelectedBlocks() of a selection given as ranges of blocks.
getSelectedBlocks(selection) ==
    LET S == UNION {selection[i][1]..selection[i][2] : i \in 1..Len(selection)}
    IN [k \in 1..Cardinality(S) |-> CHOOSE x \in S : Cardinality({y \in S : y < x}) = k - 1]

\* batch.rename( block, name )
rename(st, block, name, batch, inv) ==
    [st EXCEPT !.names = [st.names EXCEPT ![block] = name],
               !.log = Append(st.log, [block |-> block, name |-> name, batch |-> batch, inv |-> inv])]

\* Variant: the batch is not shared with the paragraph command.
executeParagraphOwnBatch(st, block, batch, inv) ==
    LET selection == <<createIn(block)>>
    IN [st EXCEPT !.queue = Append(st.queue, ParagraphEntry(inv, selection, 0)),
                  !.trace[inv].calls = Append(@, selection)]

\* Variant: the paragraph command is given the document selection.
executeParagraphDocumentSelection(st, block, batch, inv) ==
    LET selection == <<<<sel[1], sel[Len(sel)]>>>>
    IN [st EXCEPT !.queue = Append(st.queue, ParagraphEntry(inv, selection, batch)),
                  !.trace[inv].calls = Append(@, selection)]

\* const selection = new Selection(); selection.addRange( Range.createIn(
\* block ) ); editor.execute( 'paragraph', { selection, batch } ): the
\* paragraph command enqueues its own change.
executeParagraph(st, block, batch, inv) ==
    LET selection == <<createIn(block)>>
    IN [st EXCEPT !.queue = Append(st.queue, ParagraphEntry(inv, selection, batch)),
                  !.trace[inv].calls = Append(@, selection)]

\* The loop of the paragraph command over the blocks of its selection.
RECURSIVE paragraphBlocks(_, _, _, _)
paragraphBlocks(st, blocks, batch, inv) ==
    IF blocks = <<>> THEN st
    ELSE LET block == Head(blocks)
             st1 == IF is(st.names, block, "paragraph") THEN st
                    ELSE rename(st, block, "paragraph", batch, inv)
         IN paragraphBlocks(st1, Tail(blocks), batch, inv)

\* The callback of the paragraph command: every block of the selection it
\* was given that is not a paragraph is renamed to paragraph, in the batch
\* it was given, or in a new one when it was given none.
paragraphCallback(st, e) ==
    LET created == e.batch = 0
        batch == IF created THEN st.nbatches + 1 ELSE e.batch
        st0 == [st EXCEPT !.nbatches = IF created THEN @ + 1 ELSE @]
    IN paragraphBlocks(st0, getSelectedBlocks(e.selection), batch, e.inv)

\* Variant: only paragraphs are turned into the heading.
RECURSIVE forBlocksOnlyParagraph(_, _, _, _, _, _)
forBlocksOnlyParagraph(st, blocks, shouldRemove, element, batch, inv) ==
    IF blocks = <<>> THEN st
    ELSE
        LET block == Head(blocks)
            st1 == IF shouldRemove
                   THEN IF is(st.names, block, element)
                        THEN executeParagraph(st, block, batch, inv)
                        ELSE st
                   ELSE IF is(st.names, block, "paragraph")
                        THEN rename(st, block, element, batch, inv)
                        ELSE st
        IN forBlocksOnlyParagraph(st1, Tail(blocks), shouldRemove, element, batch, inv)

\* Variant: the option is applied whatever shouldRemove says.
RECURSIVE forBlocksNoRemove(_, _, _, _, _, _)
forBlocksNoRemove(st, blocks, shouldRemove, element, batch, inv) ==
    IF blocks = <<>> THEN st
    ELSE
        LET block == Head(blocks)
            st1 == IF ~is(st.names, block, element)
                   THEN rename(st, block, element, batch, inv)
                   ELSE st
        IN forBlocksNoRemove(st1, Tail(blocks), shouldRemove, element, batch, inv)

\* Variant: when removing, every block is handed to the paragraph command.
RECURSIVE forBlocksRemoveAll(_, _, _, _, _, _)
forBlocksRemoveAll(st, blocks, shouldRemove, element, batch, inv) ==
    IF blocks = <<>> THEN st
    ELSE
        LET block == Head(blocks)
            st1 == IF shouldRemove
                   THEN executeParagraph(st, block, batch, inv)
                   ELSE IF ~is(st.names, block, element)
                        THEN rename(st, block, element, batch, inv)
                        ELSE st
        IN forBlocksRemoveAll(st1, Tail(blocks), shouldRemove, element, batch, inv)

\* for ( const block of blocks ) { ... } of _doExecute
RECURSIVE forBlocks(_, _, _, _, _, _)
forBlocks(st, blocks, shouldRemove, element, batch, inv) ==
    IF blocks = <<>> THEN st
    ELSE
        LET block == Head(blocks)
            st1 == IF shouldRemove
                   THEN IF is(st.names, block, element)
                        THEN executeParagraph(st, block, batch, inv)
                        ELSE st
                   ELSE IF ~is(st.names, block, element)
                        THEN rename(st, block, element, batch, inv)
                        ELSE st
        IN forBlocks(st1, Tail(blocks), shouldRemove, element, batch, inv)

\* Variant: the selected blocks are not filtered by the schema check.
headingCallbackNoFilter(st, e, selection, element) ==
    LET created == e.batch = 0
        batch == IF created THEN st.nbatches + 1 ELSE e.batch
        st0 == [st EXCEPT !.nbatches = IF created THEN @ + 1 ELSE @,
                          !.trace = Append(@, [inv |-> e.inv, shouldRemove |-> e.shouldRemove,
                                               option |-> e.batch, batch |-> batch,
                                               calls |-> <<>>])]
    IN forBlocks(st0, selection, e.shouldRemove, element, batch, e.inv)

\* Variant: the loop runs over every block of the document.
headingCallbackAllBlocks(st, e, selection, element) ==
    LET created == e.batch = 0
        batch == IF created THEN st.nbatches + 1 ELSE e.batch
        blocks == SelectSeq([i \in 1..Len(st.names) |-> i],
                            LAMBDA b : checkCanBecomeHeading(b, element, Schema))
        st0 == [st EXCEPT !.nbatches = IF created THEN @ + 1 ELSE @,
                          !.trace = Append(@, [inv |-> e.inv, shouldRemove |-> e.shouldRemove,
                                               option |-> e.batch, batch |-> batch,
                                               calls |-> <<>>])]
    IN forBlocks(st0, blocks, e.shouldRemove, element, batch, e.inv)

\* Variant: the callback reads this.value when it runs.
headingCallbackLateRead(st, e, selection, element) ==
    LET created == e.batch = 0
        batch == IF created THEN st.nbatches + 1 ELSE e.batch
        blocks == SelectSeq(selection, LAMBDA b : checkCanBecomeHeading(b, element, Schema))
        st0 == [st EXCEPT !.nbatches = IF created THEN @ + 1 ELSE @,
                          !.trace = Append(@, [inv |-> e.inv, shouldRemove |-> e.shouldRemove,
                                               option |-> e.batch, batch |-> batch,
                                               calls |-> <<>>])]
    IN forBlocks(st0, blocks, value, element, batch, e.inv)

\* The callback _doExecute hands to document.enqueueChanges.
headingCallback(st, e, selection, element) ==
    LET created == e.batch = 0
        batch == IF created THEN st.nbatches + 1 ELSE e.batch
        blocks == SelectSeq(selection, LAMBDA b : checkCanBecomeHeading(b, element, Schema))
        st0 == [st EXCEPT !.nbatches = IF created THEN @ + 1 ELSE @,
                          !.trace = Append(@, [inv |-> e.inv, shouldRemove |-> e.shouldRemove,
                                               option |-> e.batch, batch |-> batch,
                                               calls |-> <<>>])]
    IN forBlocks(st0, blocks, e.shouldRemove, element, batch, e.inv)

\* document.enqueueChanges: the queued callbacks run in order, a callback
\* may queue more; changesDone fires when none is left.
RECURSIVE drain(_, _, _)
drain(st, selection, element) ==
    IF st.queue = <<>> THEN st
    ELSE
        LET e == Head(st.queue)
            st0 == [st EXCEPT !.queue = Tail(@)]
            st1 == IF e.kind = "heading" THEN headingCallback(st0, e, selection, element)
                   ELSE paragraphCallback(st0, e)
        IN drain(st1, selection, element)

\* Variant: any selected block of the element makes the value true.
refreshValueAny(nm, selection, element) ==
    \E i \in 1..Len(selection) : is(nm, selection[i], element)

\* refreshValue()
refreshValue(nm, selection, element) ==
    LET block == first(selection)
    IN block # 0 /\ is(nm, block, element)

\* _checkEnabled()
_checkEnabled(selection, element) ==
    LET block == first(selection)
    IN block # 0 /\ checkCanBecomeHeading(block, element, Schema)

\* The document state the queued callbacks work on.
DocState(queue) ==
    [names |-> names, queue |-> queue, log |-> log, trace |-> trace, nbatches |-> nbatches]

\* Variant: the listener refreshes the state only.
changesDoneStateOnly(nm, selection) ==
    /\ value' = value
    /\ isEnabled' = _checkEnabled(selection, modelElement)
    /\ fresh' = TRUE

\* this.listenTo( editor.document, 'changesDone', ... )
changesDone(nm, selection) ==
    /\ value' = refreshValue(nm, selection, modelElement)
    /\ isEnabled' = _checkEnabled(selection, modelElement)
    /\ fresh' = TRUE

\* Number of batches the queued callbacks are still going to create.
ToCreate(queue) == Len(SelectSeq(queue, LAMBDA e : e.kind = "heading" /\ e.batch = 0))

\* ---------------------------------------------------------------- Init
\* The editor before FormatEngine.init: nothing registered, no data.
ConvInit ==
    /\ schemaItems = {}
    /\ modelToView = <<>>
    /\ viewToModel = <<>>
    /\ cdoc = <<>>
    /\ cview = <<>>
    /\ csrc = "none"

ConsoleIds == {"title", "body", "data"}

\* new Console( element ); survived records that a timer callback ran and
\* left the class in place, nupdates counts the updates that were displayed.
NewConsole == [consoleUpdates |-> 0, previousData |-> "", updated |-> FALSE,
               textContent |-> <<>>, survived |-> FALSE, nupdates |-> 0]

ConsoleInit ==
    /\ consoles = [c \in ConsoleIds |-> NewConsole]
    /\ timers = <<>>
    /\ events = 0

Init ==
    /\ \E n \in 1..MaxBlocks :
          /\ names \in [1..n -> Names]
          /\ parents \in [1..n -> Parents]
          /\ \A i \in 1..n : <<names[i], parents[i]>> \in Schema
    /\ sel = <<>>
    /\ modelElement \in Headings
    /\ value = FALSE
    /\ isEnabled = TRUE
    /\ inChange = FALSE
    /\ pending = <<>>
    /\ nbatches = 1
    /\ log = <<>>
    /\ trace = <<>>
    /\ fresh = FALSE
    /\ ConvInit
    /\ ConsoleInit

\* ------------------------------------------------------------- actions
\* document.selection.setRanges( ... ) called directly: no changesDone.
SetRanges ==
    /\ \E s \in Selections(Len(names)) : s # sel /\ sel' = s
    /\ fresh' = FALSE
    /\ UNCHANGED <<names, parents, modelElement, value, isEnabled, inChange,
                   pending, nbatches, log, trace, cvars, kvars>>

\* command.refreshValue() called by hand.
RefreshValue ==
    /\ value' = refreshValue(names, sel, modelElement)
    /\ UNCHANGED <<names, parents, sel, modelElement, isEnabled, inChange,
                   pending, nbatches, log, trace, fresh, cvars, kvars>>

\* document.enqueueChanges( callback ) of another caller: its callback
\* starts to run; what it calls until it returns are the steps below.
BeginChange ==
    /\ ~inChange
    /\ inChange' = TRUE
    /\ log' = <<>>
    /\ trace' = <<>>
    /\ fresh' = FALSE
    /\ UNCHANGED <<names, parents, sel, modelElement, value, isEnabled,
                   pending, nbatches, cvars, kvars>>

\* Inside that callback: a rename by another feature, in a batch of its
\* own (the log keeps the renames of the command only).
OtherRename ==
    /\ inChange
    /\ \E b \in 1..Len(names), n \in Names :
          /\ names[b] # n
          /\ <<n, parents[b]>> \in Schema
          /\ names' = [names EXCEPT ![b] = n]
    /\ UNCHANGED <<parents, sel, modelElement, value, isEnabled, inChange,
                   pending, nbatches, log, trace, fresh, cvars, kvars>>

\* _doExecute( options ): reads value, enqueues the callback.  Called while
\* no change is running, the callback runs at once, then the callbacks it
\* queued, then changesDone fires.  Called from inside a running change
\* callback, it is queued behind it.
Execute(option) ==
    /\ Len(pending) < MaxPending
    /\ option = 0 => nbatches + ToCreate(pending) < MaxBatches
    /\ LET shouldRemove == value
           inv == Len(pending) + 1
           queue == Append(pending, HeadingEntry(inv, shouldRemove, option))
       IN IF inChange
          THEN /\ pending' = queue
               /\ UNCHANGED <<names, nbatches, log, trace, value, isEnabled, fresh>>
          ELSE LET st == drain([DocState(queue) EXCEPT !.log = <<>>, !.trace = <<>>],
                               sel, modelElement)
               IN /\ names' = st.names
                  /\ nbatches' = st.nbatches
                  /\ log' = st.log
                  /\ trace' = st.trace
                  /\ pending' = <<>>
                  /\ changesDone(st.names, sel)
    /\ UNCHANGED <<parents, sel, modelElement, inChange, cvars, kvars>>

DoExecute == \E option \in 0..nbatches : Execute(option)

\* The running callback returns: the queued callbacks run, changesDone fires.
EndChange ==
    /\ inChange
    /\ LET st == drain(DocState(pending), sel, modelElement)
       IN /\ names' = st.names
          /\ nbatches' = st.nbatches
          /\ log' = st.log
          /\ trace' = st.trace
          /\ changesDone(st.names, sel)
    /\ pending' = <<>>
    /\ inChange' = FALSE
    /\ UNCHANGED <<parents, sel, modelElement, cvars, kvars>>

Next ==
    \/ SetRanges
    \/ RefreshValue
    \/ BeginChange
    \/ OtherRename
    \/ DoExecute
    \/ EndChange

Spec == Init /\ [][Next]_vars

\* The command as constructed on a one-paragraph document: the state the
\* command keeps while the data pipeline or the snippet is looked at.
HeadingIdle ==
    /\ names = <<"paragraph">>
    /\ parents = <<"$root">>
    /\ sel = <<>>
    /\ modelElement = "heading1"
    /\ value = FALSE
    /\ isEnabled = TRUE
    /\ inChange = FALSE
    /\ pending = <<>>
    /\ nbatches = 1
    /\ log = <<>>
    /\ trace = <<>>
    /\ fresh = FALSE

\* ---------------------------------------------------------- FormatEngine
ModelNames == {"paragraph", "heading1", "heading2", "heading3"}
ViewTags == {"p", "h1", "h2", "h3", "h4"}

\* schema.registerItem( ..., '$block' )
RegisteredItems ==
    {<<"heading1", "$block">>, <<"heading2", "$block">>, <<"heading3", "$block">>}

\* BuildModelConverterFor( data.modelToView ).fromElement( .. ).toElement( .. )
ModelConverters ==
    << <<"heading1", "h2">>, <<"heading2", "h3">>, <<"heading3", "h4">> >>

\* Variant: the second view converter builds the element of the first.
ViewConvertersSlip ==
    << <<"h2", "heading1">>, <<"h3", "heading1">>, <<"h4", "heading3">> >>

\* BuildViewConverterFor( data.viewToModel ).fromElement( .. ).toElement( .. )
ViewConverters ==
    << <<"h2", "heading1">>, <<"h3", "heading2">>, <<"h4", "heading3">> >>

\* The element the first converter that matches x builds, "" when none does.
RECURSIVE convert(_, _)
convert(table, x) ==
    IF table = <<>> THEN ""
    ELSE IF Head(table)[1] = x THEN Head(table)[2]
    ELSE convert(Tail(table), x)

\* The model-to-view pipeline over a sequence of elements: an element no
\* converter matches produces nothing.
RECURSIVE toView(_, _)
toView(table, doc) ==
    IF doc = <<>> THEN <<>>
    ELSE LET v == convert(table, Head(doc))
         IN (IF v = "" THEN <<>> ELSE <<v>>) \o toView(table, Tail(doc))

\* The view-to-model pipeline: an element is built when a converter matches
\* and the schema knows the item.
RECURSIVE toModel(_, _, _)
toModel(table, items, view) ==
    IF view = <<>> THEN <<>>
    ELSE LET m == convert(table, Head(view))
         IN (IF m # "" /\ <<m, "$block">> \in items THEN <<m>> ELSE <<>>)
            \o toModel(table, items, Tail(view))

SeqsUpTo(S, n) == UNION {[1..k -> S] : k \in 0..n}

\* FormatEngine.init()
FormatEngineInit ==
    /\ schemaItems = {}
    /\ schemaItems' = RegisteredItems
    /\ modelToView' = modelToView \o ModelConverters
    /\ viewToModel' = viewToModel \o ViewConverters
    /\ csrc' = "none"
    /\ UNCHANGED <<cdoc, cview, hvars, kvars>>

\* The model is edited.
SetModel ==
    /\ \E d \in SeqsUpTo(ModelNames, MaxLen) : d # cdoc /\ cdoc' = d
    /\ csrc' = "none"
    /\ UNCHANGED <<schemaItems, modelToView, viewToModel, cview, hvars, kvars>>

\* editor.getData(): the model goes through data.modelToView.
GetData ==
    /\ cview' = toView(modelToView, cdoc)
    /\ csrc' = "model"
    /\ UNCHANGED <<schemaItems, modelToView, viewToModel, cdoc, hvars, kvars>>

\* editor.setData( view ): the view goes through data.viewToModel.
SetData ==
    /\ \E v \in SeqsUpTo(ViewTags, MaxLen) :
          /\ cview' = v
          /\ cdoc' = toModel(viewToModel, schemaItems, v)
    /\ csrc' = "view"
    /\ UNCHANGED <<schemaItems, modelToView, viewToModel, hvars, kvars>>

ConvNext ==
    \/ FormatEngineInit
    \/ SetModel
    \/ GetData
    \/ SetData

\* The editor as created, FormatEngine.init not yet called.
ConvStart == HeadingIdle /\ ConvInit /\ ConsoleInit

ConvSpec == ConvStart /\ [][ConvNext]_vars

\* ---------------------------------------------------------------- Console
\* setTimeout( ..., 500 ), in ticks of 250 ms
Delay == 2
Data == {"", "a"}

\* `'${ data }'`
Quoted(data) == <<"'", data, "'">>

\* Variant: the update is counted before the data is compared.
updateCountFirst(k, c, data) ==
    LET k1 == [k EXCEPT !.consoles[c].consoleUpdates = @ + 1]
    IN IF k.consoles[c].previousData = data THEN k1
       ELSE [consoles |-> [k1.consoles EXCEPT ![c] =
                             [@ EXCEPT !.previousData = data,
                                       !.updated = TRUE,
                                       !.textContent = Quoted(data),
                                       !.nupdates = @ + 1]],
             timers |-> Append(k.timers, [console |-> c, remaining |-> Delay])]

\* Console.update( data ) of console c, on the pair of consoles and timers.
update(k, c, data) ==
    IF k.consoles[c].previousData = data THEN k
    ELSE [consoles |-> [k.consoles EXCEPT ![c] =
                          [@ EXCEPT !.previousData = data,
                                    !.consoleUpdates = @ + 1,
                                    !.updated = TRUE,
                                    !.textContent = Quoted(data),
                                    !.nupdates = @ + 1]],
          timers |-> Append(k.timers, [console |-> c, remaining |-> Delay])]

\* Variant: the callback removes the class without counting.
timerCallbackNoCount(con) ==
    [con EXCEPT !.consoleUpdates = @ - 1, !.updated = FALSE]

\* The callback handed to setTimeout.
timerCallback(con) ==
    IF con.consoleUpdates - 1 = 0
    THEN [con EXCEPT !.consoleUpdates = @ - 1, !.updated = FALSE]
    ELSE [con EXCEPT !.consoleUpdates = @ - 1, !.survived = TRUE]

\* editor.model.document.on( 'change:data', ... )
ChangeData ==
    /\ events < MaxEvents
    /\ \E t \in Data, b \in Data, d \in Data :
          LET k0 == [consoles |-> consoles, timers |-> timers]
              k1 == update(k0, "title", t)
              k2 == update(k1, "body", b)
              k3 == update(k2, "data", d)
          IN /\ consoles' = k3.consoles
             /\ timers' = k3.timers
    /\ events' = events + 1
    /\ UNCHANGED <<hvars, cvars>>

\* The oldest timer is due and its callback runs.
TimerFire ==
    /\ timers # <<>>
    /\ Head(timers).remaining = 0
    /\ consoles' = [consoles EXCEPT ![Head(timers).console] = timerCallback(@)]
    /\ timers' = Tail(timers)
    /\ UNCHANGED <<events, hvars, cvars>>

\* 250 ms pass.
Tick ==
    /\ \E i \in 1..Len(timers) : timers[i].remaining > 0
    /\ timers' = [i \in 1..Len(timers) |->
                    [timers[i] EXCEPT !.remaining = IF @ > 0 THEN @ - 1 ELSE 0]]
    /\ UNCHANGED <<consoles, events, hvars, cvars>>

ConsoleNext ==
    \/ ChangeData
    \/ TimerFire
    \/ Tick

\* The snippet once the editor is created and the three consoles are made.
ConsoleStart == HeadingIdle /\ ConvInit /\ ConsoleInit

ConsoleSpec == ConsoleStart /\ [][ConsoleNext]_vars

\* The event loop runs a due timer callback, and time passes.
FairConsoleSpec == ConsoleSpec /\ WF_vars(TimerFire) /\ WF_vars(Tick)

\* --------------------------------------------------------- properties
\* The target type is schema-permitted at the position of block b.
Permitted(b) == <<modelElement, parents[b]>> \in Schema

\* A step in which queued callbacks of _doExecute ran and changesDone fired.
Ran == (~inChange /\ DoExecute) \/ (EndChange /\ pending # <<>>)

\* The log holds a rename of block b to name n by invocation inv.
Logged(lg, b, n, inv) == \E k \in 1..Len(lg) : lg[k].block = b /\ lg[k].name = n /\ lg[k].inv = inv

TypeOK ==
    /\ Len(names) \in 1..MaxBlocks
    /\ sel \in Selections(Len(names))
    /\ value \in BOOLEAN
    /\ nbatches \in 1..MaxBatches
    /\ Len(pending) <= MaxPending

\* C1: an execute that read value = FALSE renames every selected block that
\* is schema-permitted for the target type and is not of it to the target
\* type; a selection of one such block B ends with B of the target type.
C1_ApplyRenamesEligible ==
    [][(Ran /\ ~trace'[1].shouldRemove) =>
         \A i \in 1..Len(sel) :
            (Permitted(sel[i]) /\ names[sel[i]] # modelElement) =>
               /\ Logged(log', sel[i], modelElement, 1)
               /\ Len(trace') = 1 => names'[sel[i]] = modelElement]_vars

C1_Witness ==
    /\ fresh /\ Len(trace) = 1 /\ ~trace[1].shouldRemove
    /\ Len(sel) = 1
    /\ Logged(log, sel[1], modelElement, 1)
    /\ names[sel[1]] = modelElement

\* C2: with a selection of one eligible block B that an execute has just
\* renamed to the target type (changesDone delivered), the next execute
\* with the same selection makes B a paragraph again.
C2_SecondExecuteReverts ==
    [][(/\ fresh /\ ~inChange /\ Len(sel) = 1
        /\ Len(trace) = 1 /\ ~trace[1].shouldRemove
        /\ Logged(log, sel[1], modelElement, 1)
        /\ DoExecute) =>
          /\ names'[sel[1]] = "paragraph"
          /\ Logged(log', sel[1], "paragraph", 1)]_vars

C2_Witness ==
    /\ fresh /\ Len(trace) = 1 /\ trace[1].shouldRemove
    /\ Len(sel) = 1
    /\ Logged(log, sel[1], "paragraph", 1)
    /\ names[sel[1]] = "paragraph"
    /\ ~value

\* C3 as stated: the target type active on the first selected block (value
\* TRUE) when execute is called makes every eligible selected block a
\* paragraph.
C3_Original ==
    [][(/\ ~inChange /\ DoExecute
        /\ value /\ sel # <<>> /\ names[first(sel)] = modelElement) =>
          \A i \in 1..Len(sel) : Permitted(sel[i]) => names'[sel[i]] = "paragraph"]_vars

\* C3 amended: an execute that read value = TRUE makes every eligible
\* selected block of the target type a paragraph; the selected blocks of
\* another type keep their type.
C3_RevertsTargetTypeOnly ==
    [][(Ran /\ trace'[1].shouldRemove) =>
         \A i \in 1..Len(sel) :
            /\ (Permitted(sel[i]) /\ names[sel[i]] = modelElement) =>
                  /\ Logged(log', sel[i], "paragraph", 1)
                  /\ names'[sel[i]] = "paragraph"
            /\ (Len(trace') = 1 /\ names[sel[i]] # modelElement) =>
                  names'[sel[i]] = names[sel[i]]]_vars

C3_Witness ==
    /\ fresh /\ Len(trace) = 1 /\ trace[1].shouldRemove
    /\ Len(sel) = 2
    /\ Logged(log, sel[1], "paragraph", 1)
    /\ names[sel[2]] \in Headings \ {modelElement}
    /\ Permitted(sel[2])

\* C4: when changesDone has fired, value is TRUE exactly when there is a
\* first selected block and it is of the target type, whatever the other
\* selected blocks are.
C4_ValueIsFirstBlock ==
    fresh => (value <=> (sel # <<>> /\ names[sel[1]] = modelElement))

C4_Witness ==
    /\ fresh /\ Len(sel) = 2 /\ ~value
    /\ names[sel[1]] # modelElement
    /\ names[sel[2]] = modelElement

\* C5: right after an execute that renamed the (first) selected block to
\* the target type value is TRUE; right after one that made it a paragraph
\* again value is FALSE.
C5_ValueAfterExecute ==
    [][(Ran /\ sel # <<>> /\ names'[sel[1]] # names[sel[1]]) =>
         /\ Logged(log', sel[1], names'[sel[1]], Len(trace')) \/ Len(trace') > 1
         /\ names'[sel[1]] = modelElement => value'
         /\ names'[sel[1]] = "paragraph" => ~value']_vars

C5_Witness ==
    /\ fresh /\ Len(trace) = 1 /\ ~trace[1].shouldRemove
    /\ Len(sel) = 1
    /\ Logged(log, sel[1], modelElement, 1)
    /\ value

\* C6: the command is disabled when no block is selected or the target
\* type is not schema-permitted at the first selected block: _checkEnabled
\* answers FALSE, and so does isEnabled once changesDone has fired.
C6_DisabledWhenNotPermitted ==
    (sel = <<>> \/ ~Permitted(sel[1])) =>
        /\ ~_checkEnabled(sel, modelElement)
        /\ fresh => ~isEnabled

C6_Witness ==
    /\ fresh /\ Len(sel) = 1 /\ ~Permitted(sel[1]) /\ ~isEnabled

\* C7: a selected block that fails the schema check keeps its name through
\* an execute, whichever way it toggles, and the other selected blocks are
\* processed all the same.
C7_NotPermittedUnchanged ==
    [][Ran =>
         \A i \in 1..Len(sel) :
            /\ ~Permitted(sel[i]) =>
                  /\ names'[sel[i]] = names[sel[i]]
                  /\ \A k \in 1..Len(log') : log'[k].block # sel[i]
            /\ (Permitted(sel[i]) /\ Len(trace') = 1 /\ ~trace'[1].shouldRemove) =>
                  names'[sel[i]] = modelElement]_vars

C7_Witness ==
    /\ fresh /\ Len(trace) = 1 /\ ~trace[1].shouldRemove
    /\ Len(sel) = 2
    /\ ~Permitted(sel[1]) /\ names[sel[1]] # modelElement
    /\ Logged(log, sel[2], modelElement, 1)

\* C8: the renames of one execute, those of the paragraph command it
\* executed included, are all in one batch: options.batch when given, a
\* batch created for that execute otherwise.
C8_OneBatch ==
    [][Ran =>
         /\ \A k \in 1..Len(log') :
               /\ log'[k].inv \in 1..Len(trace')
               /\ log'[k].batch = trace'[log'[k].inv].batch
         /\ \A i \in 1..Len(trace') :
               IF trace'[i].option # 0
               THEN trace'[i].batch = trace'[i].option
               ELSE /\ trace'[i].batch > nbatches
                    /\ trace'[i].batch <= nbatches'
                    /\ \A j \in 1..Len(trace') : j # i => trace'[j].batch # trace'[i].batch]_vars

C8_Witness ==
    /\ fresh /\ Len(trace) = 1 /\ trace[1].shouldRemove /\ trace[1].option = 0
    /\ Len(log) = 2
    /\ \A k \in 1..2 : log[k].batch = trace[1].batch /\ log[k].name = "paragraph"

\* C9: the converters FormatEngine.init registers are inverse to each other
\* on (heading1,h2), (heading2,h3), (heading3,h4): model to view to model
\* gives the model element back, view to model to view the tag, and data
\* made of them survives the round trip through the pipelines.
DeclaredPairs == {<<"heading1", "h2">>, <<"heading2", "h3">>, <<"heading3", "h4">>}
DeclaredOnly(doc, k) == SelectSeq(doc, LAMBDA x : \E pr \in DeclaredPairs : pr[k] = x)

C9_ConversionsBijective ==
    schemaItems # {} =>
        /\ \A pr \in DeclaredPairs :
              /\ convert(modelToView, pr[1]) = pr[2]
              /\ convert(viewToModel, convert(modelToView, pr[1])) = pr[1]
              /\ convert(modelToView, convert(viewToModel, pr[2])) = pr[2]
        /\ csrc = "model" => toModel(viewToModel, schemaItems, cview) = DeclaredOnly(cdoc, 1)
        /\ csrc = "view" => toView(modelToView, cdoc) = DeclaredOnly(cview, 2)

C9_Witness ==
    /\ schemaItems # {} /\ csrc = "view"
    /\ cview = <<"h3", "h4">>
    /\ cdoc = <<"heading2", "heading3">>

\* C10: the class 'updated' of a console is not removed while a timer of a
\* later update of it is still pending, and once set it is removed unless
\* the console is updated again.
TimersOf(tm, c) == {i \in 1..Len(tm) : tm[i].console = c}

C10_UpdatedCleared ==
    /\ [][\A c \in ConsoleIds :
            (consoles[c].updated /\ ~consoles'[c].updated) => TimersOf(timers', c) = {}]_vars
    /\ \A c \in ConsoleIds : \A n \in 1..(MaxEvents + 1) :
          (consoles[c].updated /\ consoles[c].nupdates = n)
             ~> (~consoles[c].updated \/ consoles[c].nupdates # n)

C10_Witness ==
    \E c \in ConsoleIds :
       /\ consoles[c].survived
       /\ ~consoles[c].updated
       /\ consoles[c].nupdates = 2
       /\ TimersOf(timers, c) = {}

\* C11: an execute that removes the option executes the paragraph command
\* once for each selected block of the target type, each time with a new
\* selection of one range, the inside of that block, and never with the
\* selection of the document.
C11_RevertScopedPerBlock ==
    [][Ran =>
         /\ \A i \in 1..Len(trace') : \A k \in 1..Len(trace'[i].calls) :
               LET selection == trace'[i].calls[k]
               IN /\ Len(selection) = 1
                  /\ \E j \in 1..Len(sel) :
                        /\ selection[1] = <<sel[j], sel[j]>>
                        /\ Permitted(sel[j])
                  /\ \A m \in 1..Len(trace'[i].calls) :
                        m # k => trace'[i].calls[m] # selection
         /\ trace'[1].shouldRemove =>
               \A j \in 1..Len(sel) :
                  (Permitted(sel[j]) /\ names[sel[j]] = modelElement) =>
                     \E k \in 1..Len(trace'[1].calls) :
                        trace'[1].calls[k] = <<<<sel[j], sel[j]>>>>
         /\ trace'[1].shouldRemove =>
               \A k \in 1..Len(trace'[1].calls) :
                  names[trace'[1].calls[k][1][1]] = modelElement]_vars

C11_Witness ==
    /\ fresh /\ Len(trace) = 1 /\ trace[1].shouldRemove
    /\ Len(sel) = 2
    /\ trace[1].calls = <<<<<<sel[1], sel[1]>>>>, <<<<sel[2], sel[2]>>>>>>
    /\ \A j \in 1..2 : names[sel[j]] = "paragraph"

\* C12: after a change:data event each of the three elements shows the
\* value its console was last given, the first event and the empty string
\* included.
C12_ShowsCurrentValue ==
    events > 0 =>
       \A c \in ConsoleIds : consoles[c].textContent = Quoted(consoles[c].previousData)

\* C13: consoleUpdates is never negative, it is the number of timers of the
\* console that were set and have not fired, and the element has the class
\* 'updated' whenever it is above 0.
C13_CountsPendingTimers ==
    \A c \in ConsoleIds :
       /\ consoles[c].consoleUpdates >= 0
       /\ consoles[c].consoleUpdates = Cardinality(TimersOf(timers, c))
       /\ consoles[c].consoleUpdates > 0 => consoles[c].updated

C13_Witness ==
    \E c \in ConsoleIds :
       /\ consoles[c].survived
       /\ consoles[c].consoleUpdates = 1
       /\ consoles[c].updated
       /\ Cardinality(TimersOf(timers, c)) = 1

\* C14: an execute leaves the number and the places of the blocks as they
\* are, changes no block outside the selection, and leaves a selected block
\* with the name it had, the target type or paragraph.
Selected(b) == \E j \in 1..Len(sel) : sel[j] = b

C14_OnlySelectedBlocksChange ==
    [][Ran =>
         /\ Len(names') = Len(names)
         /\ parents' = parents
         /\ \A b \in 1..Len(names) :
               IF Selected(b)
               THEN names'[b] \in {names[b], modelElement, "paragraph"}
               ELSE /\ names'[b] = names[b]
                    /\ \A k \in 1..Len(log') : log'[k].block # b]_vars

C14_Witness ==
    /\ fresh /\ Len(trace) = 1 /\ trace[1].shouldRemove
    /\ Len(names) = 2 /\ Len(sel) = 1
    /\ Logged(log, sel[1], "paragraph", 1)
    /\ \E b \in 1..2 : ~Selected(b) /\ names[b] = modelElement /\ Permitted(b)

\* C15: the way an execute toggles is the value it read when it was called:
\* one that read FALSE never executes the paragraph command and renames no
\* block that is of the target type, one that read TRUE renames no block to
\* the target type.
C15_DirectionReadAtCall ==
    [][Ran =>
         \A i \in 1..Len(trace') :
            /\ trace'[i].shouldRemove = (IF inChange THEN pending[i].shouldRemove ELSE value)
            /\ ~trace'[i].shouldRemove =>
                  /\ trace'[i].calls = <<>>
                  /\ \A k \in 1..Len(log') :
                        log'[k].inv = i =>
                           /\ log'[k].name = modelElement
                           /\ names[log'[k].block] # modelElement
            /\ trace'[i].shouldRemove =>
                  \A k \in 1..Len(log') : log'[k].inv = i => log'[k].name # modelElement]_vars

C15_Witness ==
    /\ fresh /\ Len(trace) = 1 /\ ~trace[1].shouldRemove
    /\ sel # <<>> /\ Permitted(sel[1])
    /\ value
    /\ trace[1].calls = <<>>
    /\ ~Logged(log, sel[1], modelElement, 1)
====
